---- MODULE Spec2Model ----
(***************************************************************************)
(* Model of the agentic compliance query pipeline of                       *)
(* src/docker/backend/rag_agent.py: the four LangGraph nodes               *)
(* (decompose, retrieve, synthesize, validate), the CloudRunLLM wrapper     *)
(* and agent_workflow_invoke_sync.                                          *)
(*                                                                         *)
(* Text is a sequence of one-character strings, so that strip, split,      *)
(* slicing, len and isdigit are computed as Python computes them.          *)
(* A Python dict is an ordered mapping: a sequence of [key, value]         *)
(* records in insertion order.  print calls are not modelled.              *)
(***************************************************************************)
EXTENDS Integers, Sequences, FiniteSets, TLC

\* ------------------------------------------------------------------------
\* Bounds of the model (not program constants)
\* ------------------------------------------------------------------------

\* Largest number of numbered lines in a decomposition response.
MaxLines == 4

\* Number of points the index holds that match a sub-query (the search is
\* asked for fewer, so the limit is what cuts the list).
MaxRanked == 4

\* ------------------------------------------------------------------------
\* Program constants
\* ------------------------------------------------------------------------

\* limit=3 in qdrant_client.search
SearchLimit == 3

\* len(answer) > 50 in validation_node
MinAnswerLen == 50

\* ctx["content"][:200] in synthesis_node
SnippetLen == 200

\* line[:3] in query_decomposition_node
DigitPrefixLen == 3

\* round(ctx["score"], 3); scores are counted in units of 10^-4, so rounding
\* to three decimals is rounding to a multiple of ScoreUnit.
ScoreUnit == 10

\* The number of score units in 1.0.
ScoreScale == 10000

\* The bits of the significand of a Python float.
FloatBits == 53

\* ------------------------------------------------------------------------
\* Python values
\* ------------------------------------------------------------------------

\* Python None: a value that is no text and no mapping (a function whose
\* domain is not 1..n).
None == [x \in {0} |-> 0]

\* No value yet: the AgentState before the call, the result before the
\* return.
Absent == [absent |-> TRUE]

\* The outcome of a call: a returned value or a raised exception (its str()).
\* Every function of the program below gives one of the two.
Returned(v) == [ok |-> TRUE, value |-> v]

Raised(msg) == [ok |-> FALSE, exc |-> msg]

Min(a, b) == IF a <= b THEN a ELSE b

\* A character of a text is a string: an ASCII character is itself; the
\* character of code point n >= 128, an ASCII control character that has no
\* escape, and the grave accent (which a string cannot hold) are written
\* "U+n" with n in decimal.
Chr(n) == "U+" \o ToString(n)

\* Characters str.strip() removes: those for which str.isspace() is true.
Whitespace ==
    {" ", "\t", "\n", "\r", "\f"}
    \cup {Chr(n) : n \in {11} \cup 28..31 \cup {133, 160, 5760}
                         \cup 8192..8202
                         \cup {8232, 8233, 8239, 8287, 12288}}

\* The runs of code points above ASCII for which str.isdigit() is true
\* (first and last code point of each run).
DigitRuns ==
    {<<178, 179>>, <<185, 185>>, <<1632, 1641>>, <<1776, 1785>>,
     <<1984, 1993>>, <<2406, 2415>>, <<2534, 2543>>, <<2662, 2671>>,
     <<2790, 2799>>, <<2918, 2927>>, <<3046, 3055>>, <<3174, 3183>>,
     <<3302, 3311>>, <<3430, 3439>>, <<3558, 3567>>, <<3664, 3673>>,
     <<3792, 3801>>, <<3872, 3881>>, <<4160, 4169>>, <<4240, 4249>>,
     <<4969, 4977>>, <<6112, 6121>>, <<6160, 6169>>, <<6470, 6479>>,
     <<6608, 6618>>, <<6784, 6793>>, <<6800, 6809>>, <<6992, 7001>>,
     <<7088, 7097>>, <<7232, 7241>>, <<7248, 7257>>, <<8304, 8304>>,
     <<8308, 8313>>, <<8320, 8329>>, <<9312, 9320>>, <<9332, 9340>>,
     <<9352, 9360>>, <<9450, 9450>>, <<9461, 9469>>, <<9471, 9471>>,
     <<10102, 10110>>, <<10112, 10120>>, <<10122, 10130>>, <<42528,
     42537>>, <<43216, 43225>>, <<43264, 43273>>, <<43472, 43481>>,
     <<43504, 43513>>, <<43600, 43609>>, <<44016, 44025>>, <<65296,
     65305>>, <<66720, 66729>>, <<68160, 68163>>, <<68912, 68921>>,
     <<69216, 69224>>, <<69714, 69722>>, <<69734, 69743>>, <<69872,
     69881>>, <<69942, 69951>>, <<70096, 70105>>, <<70384, 70393>>,
     <<70736, 70745>>, <<70864, 70873>>, <<71248, 71257>>, <<71360,
     71369>>, <<71472, 71481>>, <<71904, 71913>>, <<72016, 72025>>,
     <<72784, 72793>>, <<73040, 73049>>, <<73120, 73129>>, <<92768,
     92777>>, <<92864, 92873>>, <<93008, 93017>>, <<120782, 120831>>,
     <<123200, 123209>>, <<123632, 123641>>, <<125264, 125273>>,
     <<127232, 127242>>, <<130032, 130041>>}

\* Characters for which str.isdigit() is true.
Digits ==
    {"0", "1", "2", "3", "4", "5", "6", "7", "8", "9"}
    \cup UNION {{Chr(n) : n \in run[1]..run[2]} : run \in DigitRuns}

DigitChar == <<"0", "1", "2", "3", "4", "5", "6", "7", "8", "9">>

\* s[:n]
Prefix(s, n) == SubSeq(s, 1, Min(n, Len(s)))

\* n copies of the character c
Rep(c, n) == [j \in 1..n |-> c]

\* str(n) for a natural number n, as in f"source_{i+1}"
RECURSIVE Decimal(_)
Decimal(n) ==
    IF n < 10 THEN <<DigitChar[n + 1]>>
    ELSE Decimal(n \div 10) \o <<DigitChar[(n % 10) + 1]>>

\* str.lstrip() / str.rstrip() / str.strip()
RECURSIVE LStrip(_)
LStrip(s) ==
    IF s # <<>> /\ Head(s) \in Whitespace THEN LStrip(Tail(s)) ELSE s

RECURSIVE RStrip(_)
RStrip(s) ==
    IF s # <<>> /\ s[Len(s)] \in Whitespace
    THEN RStrip(SubSeq(s, 1, Len(s) - 1))
    ELSE s

Strip(s) == RStrip(LStrip(s))

\* s.split('\n'): always at least one piece, possibly empty
RECURSIVE SplitLines(_)
SplitLines(s) ==
    IF \A j \in 1..Len(s) : s[j] # "\n" THEN <<s>>
    ELSE LET k == CHOOSE j \in 1..Len(s) :
                      s[j] = "\n" /\ \A m \in 1..(j - 1) : s[m] # "\n"
         IN  <<SubSeq(s, 1, k - 1)>> \o SplitLines(SubSeq(s, k + 1, Len(s)))

\* '\n'.join(lines)
RECURSIVE JoinLines(_)
JoinLines(lines) ==
    IF lines = <<>> THEN <<>>
    ELSE IF Len(lines) = 1 THEN lines[1]
    ELSE lines[1] \o <<"\n">> \o JoinLines(Tail(lines))

\* ------------------------------------------------------------------------
\* Fixed strings of the program
\* ------------------------------------------------------------------------

\* "Error generating answer."
SentinelAnswer ==
    <<"E","r","r","o","r"," ","g","e","n","e","r","a","t","i","n","g"," ",
      "a","n","s","w","e","r",".">>

\* "I encountered an error processing your compliance query: "
ApologyPrefix ==
    <<"I"," ","e","n","c","o","u","n","t","e","r","e","d"," ","a","n"," ",
      "e","r","r","o","r"," ","p","r","o","c","e","s","s","i","n","g"," ",
      "y","o","u","r"," ","c","o","m","p","l","i","a","n","c","e"," ","q",
      "u","e","r","y",":"," ">>

\* "LLM request timeout - Cloud Run may be cold starting"
TimeoutMessage ==
    <<"L","L","M"," ","r","e","q","u","e","s","t"," ","t","i","m","e","o",
      "u","t"," ","-"," ","C","l","o","u","d"," ","R","u","n"," ","m","a",
      "y"," ","b","e"," ","c","o","l","d"," ","s","t","a","r","t","i","n",
      "g">>

\* "LLM request failed: "
RequestFailedPrefix ==
    <<"L","L","M"," ","r","e","q","u","e","s","t"," ","f","a","i","l","e",
      "d",":"," ">>

\* "Decomposition error: "
DecompositionErrorPrefix ==
    <<"D","e","c","o","m","p","o","s","i","t","i","o","n"," ","e","r","r",
      "o","r",":"," ">>

\* "Retrieval error: "
RetrievalErrorPrefix ==
    <<"R","e","t","r","i","e","v","a","l"," ","e","r","r","o","r",":"," ">>

\* "Synthesis error: "
SynthesisErrorPrefix ==
    <<"S","y","n","t","h","e","s","i","s"," ","e","r","r","o","r",":"," ">>

\* str(AttributeError) of None.strip()
NoneStripMessage ==
    <<"'","N","o","n","e","T","y","p","e","'"," ","o","b","j","e","c","t",
      " ","h","a","s"," ","n","o"," ","a","t","t","r","i","b","u","t","e",
      " ","'","s","t","r","i","p","'">>

\* str(AttributeError) of None.get(...)
NoneGetMessage ==
    <<"'","N","o","n","e","T","y","p","e","'"," ","o","b","j","e","c","t",
      " ","h","a","s"," ","n","o"," ","a","t","t","r","i","b","u","t","e",
      " ","'","g","e","t","'">>

\* "Unknown" and "N/A", the payload defaults
UnknownText == <<"U","n","k","n","o","w","n">>

NotAvailableText == <<"N","/","A">>

\* "source_" and "error", the citation keys
SourceKeyPrefix == <<"s","o","u","r","c","e","_">>

ErrorKey == <<"e","r","r","o","r">>

\* "..." appended to a snippet
Ellipsis == <<".", ".", ".">>

\* ------------------------------------------------------------------------
\* Standard output
\* ------------------------------------------------------------------------

\* The printable ASCII characters, the grave accent (code point 96) apart.
AsciiPrintable ==
    {" ", "!", "\"", "#", "$", "%", "&", "'", "(", ")", "*", "+", ",",
     "-", ".", "/", "0", "1", "2", "3", "4", "5", "6", "7", "8", "9",
     ":", ";", "<", "=", ">", "?", "@", "A", "B", "C", "D", "E", "F",
     "G", "H", "I", "J", "K", "L", "M", "N", "O", "P", "Q", "R", "S",
     "T", "U", "V", "W", "X", "Y", "Z", "[", "\\", "]", "^", "_",
     "a", "b", "c", "d", "e", "f", "g", "h", "i", "j", "k", "l", "m",
     "n", "o", "p", "q", "r", "s", "t", "u", "v", "w", "x", "y", "z",
     "{", "|", "}", "~"}

\* The characters of code point 0 .. 127.
Ascii ==
    AsciiPrintable \cup {"\t", "\n", "\r", "\f"}
    \cup {Chr(n) : n \in 0..8 \cup {11} \cup 14..31 \cup {96, 127}}

\* The surrogate code points U+D800 .. U+DFFF, and those of them that the
\* error handler surrogateescape writes as a byte (U+DC80 .. U+DCFF).
Surrogates == {Chr(n) : n \in 55296..57343}

EscapedSurrogates == {Chr(n) : n \in 56448..56575}

\* sys.stdout: its encoding and its error handler.
Utf8Strict == [encoding |-> "utf-8", errors |-> "strict"]

Utf8Escape == [encoding |-> "utf-8", errors |-> "surrogateescape"]

AsciiStrict == [encoding |-> "ascii", errors |-> "strict"]

Stdouts == {Utf8Strict, Utf8Escape, AsciiStrict}

\* The codec of out has no bytes for the character c.
Unencodable(out, c) ==
    IF out.encoding = "ascii" THEN c \notin Ascii ELSE c \in Surrogates

\* The error handler of out writes the character c all the same.
Escapable(out, c) ==
    out.errors = "surrogateescape" /\ c \in EscapedSurrogates

\* The encoder stops at the first run of characters it has no bytes for and
\* hands the run to the error handler; surrogateescape writes the
\* characters of the run it can and fails at the first it cannot, with the
\* rest of the run.  The result is the failing stretch [start, end]
\* (1-based, inclusive), or start = 0 when the whole text is written.
RECURSIVE EncodeFailure(_, _, _)
EncodeFailure(out, text, from) ==
    LET bad == {j \in from..Len(text) : Unencodable(out, text[j])}
    IN  IF bad = {} THEN [start |-> 0, end |-> 0]
        ELSE LET s == CHOOSE j \in bad : \A k \in bad : j <= k
                 e == CHOOSE j \in s..Len(text) :
                         /\ \A k \in s..j : k \in bad
                         /\ j + 1 \notin bad
                 stuck == {j \in s..e : ~Escapable(out, text[j])}
             IN  IF stuck = {} THEN EncodeFailure(out, text, e + 1)
                 ELSE [start |-> CHOOSE j \in stuck :
                                    \A k \in stuck : j <= k,
                       end   |-> e]

\* The code point of a character that is not ASCII.
CodePointOf[c \in STRING] ==
    IF c \in Surrogates THEN CHOOSE n \in 55296..57343 : Chr(n) = c
    ELSE CHOOSE n \in 128..1114111 : Chr(n) = c

CodePoint(c) == CodePointOf[c]

HexChar ==
    <<"0", "1", "2", "3", "4", "5", "6", "7", "8", "9",
      "a", "b", "c", "d", "e", "f">>

RECURSIVE Pow16(_)
Pow16(k) == IF k = 0 THEN 1 ELSE 16 * Pow16(k - 1)

\* n in hexadecimal, width digits
Hex(n, width) ==
    [k \in 1..width |-> HexChar[((n \div Pow16(width - k)) % 16) + 1]]

\* The character of code point n as repr() writes it in the message of the
\* error.
EscapedCode[n \in Nat] ==
    IF n < 256 THEN <<"\\", "x">> \o Hex(n, 2)
    ELSE IF n < 65536 THEN <<"\\", "u">> \o Hex(n, 4)
    ELSE <<"\\", "U">> \o Hex(n, 8)

EscapedChar(c) == EscapedCode[CodePoint(c)]

\* The name of the codec and the reason it gives.
CodecName(out) ==
    IF out.encoding = "ascii" THEN <<"a","s","c","i","i">>
    ELSE <<"u","t","f","-","8">>

\* "surrogates not allowed"
SurrogatesNotAllowed ==
    <<"s","u","r","r","o","g","a","t","e","s"," ","n","o","t"," ","a","l",
      "l","o","w","e","d">>

\* "ordinal not in range(128)"
OrdinalNotInRange ==
    <<"o","r","d","i","n","a","l"," ","n","o","t"," ","i","n"," ","r","a",
      "n","g","e","(","1","2","8",")">>

CodecReason(out) ==
    IF out.encoding = "ascii" THEN OrdinalNotInRange
    ELSE SurrogatesNotAllowed

\* " codec can't encode "
CantEncode ==
    <<" ","c","o","d","e","c"," ","c","a","n","'","t"," ","e","n","c","o",
      "d","e"," ">>

\* "character "
CharacterText ==
    <<"c","h","a","r","a","c","t","e","r"," ">>

\* "characters in position "
CharactersInPosition ==
    <<"c","h","a","r","a","c","t","e","r","s"," ","i","n"," ","p","o","s",
      "i","t","i","o","n"," ">>

\* " in position "
InPosition ==
    <<" ","i","n"," ","p","o","s","i","t","i","o","n"," ">>

\* str() of the UnicodeEncodeError for the stretch f of text.
EncodeErrorMessage(out, text, f) ==
    <<"'">> \o CodecName(out) \o <<"'">> \o CantEncode
    \o (IF f.start = f.end
        THEN CharacterText \o <<"'">> \o EscapedChar(text[f.start])
             \o <<"'">> \o InPosition \o Decimal(f.start - 1)
        ELSE CharactersInPosition \o Decimal(f.start - 1) \o <<"-">>
             \o Decimal(f.end - 1))
    \o <<":", " ">> \o CodecReason(out)

\* print(text) on sys.stdout: None when the text was written, else str()
\* of the UnicodeEncodeError it raises.
PrintErrorOn[out \in Stdouts, text \in Seq(STRING)] ==
    LET f == EncodeFailure(out, text, 1)
    IN  IF f.start = 0 THEN None ELSE EncodeErrorMessage(out, text, f)

PrintError(out, text) == PrintErrorOn[out, text]

\* print(text) and then the outcome r of what follows it.
AfterPrint(out, text, r) ==
    IF PrintError(out, text) = None THEN r
    ELSE Raised(PrintError(out, text))

\* The texts the program prints.
\* line 77
DecompositionBanner ==
    <<Chr(128269)," ","N","o","d","e"," ","1",":"," ","Q","u","e","r","y",
      " ","D","e","c","o","m","p","o","s","i","t","i","o","n">>

\* line 105, before the number
DecomposedIntoText ==
    <<" "," "," ","D","e","c","o","m","p","o","s","e","d"," ","i","n","t",
      "o"," ">>

\* line 105, after the number
SubQueriesText ==
    <<" ","s","u","b","-","q","u","e","r","i","e","s">>

\* line 108
ErrorInDecompositionText ==
    <<" "," "," ","E","r","r","o","r"," ","i","n"," ","d","e","c","o","m",
      "p","o","s","i","t","i","o","n",":"," ">>

\* line 118
RetrievalBanner ==
    <<Chr(128218)," ","N","o","d","e"," ","2",":"," ","R","e","t","r","i",
      "e","v","a","l"," ","f","r","o","m"," ","Q","d","r","a","n","t">>

\* line 123
SearchingForText ==
    <<" "," "," ","S","e","a","r","c","h","i","n","g"," ","f","o","r",":",
      " ">>

\* line 152
RetrievalErrorText ==
    <<" "," "," ","R","e","t","r","i","e","v","a","l"," ","e","r","r","o",
      "r",":"," ">>

\* line 156, before the number
RetrievedText ==
    <<" "," "," ","R","e","t","r","i","e","v","e","d"," ">>

\* line 156, after the number
TotalContextsText ==
    <<" ","t","o","t","a","l"," ","c","o","n","t","e","x","t","s">>

\* line 164
SynthesisBanner ==
    <<Chr(128161)," ","N","o","d","e"," ","3",":"," ","S","y","n","t","h",
      "e","s","i","s"," ","a","n","d"," ","R","e","a","s","o","n","i","n",
      "g">>

\* line 208, before the number
GeneratedAnswerText ==
    <<" "," "," ","G","e","n","e","r","a","t","e","d"," ","a","n","s","w",
      "e","r"," ","w","i","t","h"," ">>

\* line 208, after the number
CitationsText ==
    <<" ","c","i","t","a","t","i","o","n","s">>

\* line 211
SynthesisErrorText ==
    <<" "," "," ","S","y","n","t","h","e","s","i","s"," ","e","r","r","o",
      "r",":"," ">>

\* line 222
ValidationBanner ==
    <<Chr(9989)," ","N","o","d","e"," ","4",":"," ","V","a","l","i","d","a",
      "t","i","o","n">>

\* line 233
ValidationFailedText ==
    <<" "," "," ",Chr(9888),Chr(65039)," ","V","a","l","i","d","a","t","i",
      "o","n"," ","f","a","i","l","e","d">>

\* line 235
ValidationPassedText ==
    <<" "," "," ",Chr(10003)," ","V","a","l","i","d","a","t","i","o","n",
      " ","p","a","s","s","e","d">>

\* line 266
ProcessingText ==
    <<Chr(128640)," ","P","r","o","c","e","s","s","i","n","g"," ","q","u",
      "e","r","y"," ","f","o","r"," ","u","s","e","r"," ">>

\* line 267
QueryText ==
    <<"Q","u","e","r","y",":"," ">>

\* line 289
CriticalErrorText ==
    <<Chr(10060)," ","C","r","i","t","i","c","a","l"," ","w","o","r","k",
      "f","l","o","w"," ","e","r","r","o","r",":"," ">>

\* '=' * 60, the rule printed at lines 265 and 268
RuleLen == 60

SearchEchoLen == 60

\* ------------------------------------------------------------------------
\* Ordered mappings (Python dict)
\* ------------------------------------------------------------------------

EmptyDict == <<>>

\* d[k] = v: replaces the value of an existing key in place, otherwise
\* appends the key at the end.
DictSet(d, k, v) ==
    IF \E j \in 1..Len(d) : d[j].key = k
    THEN [j \in 1..Len(d) |->
             IF d[j].key = k THEN [key |-> k, value |-> v] ELSE d[j]]
    ELSE Append(d, [key |-> k, value |-> v])

\* ------------------------------------------------------------------------
\* CloudRunLLM.invoke
\* ------------------------------------------------------------------------

\* http is what requests.post / raise_for_status / response.json() did:
\*   [kind |-> "timeout"]                    requests.exceptions.Timeout
\*   [kind |-> "request_error", detail |-> t] any other RequestException
\*                                           (connection, non-success status)
\*   [kind |-> "json", body |-> b]           a JSON object b
CloudRunLLM_invoke(http) ==
    IF http.kind = "timeout" THEN Raised(TimeoutMessage)
    ELSE IF http.kind = "request_error"
    THEN Raised(RequestFailedPrefix \o http.detail)
    ELSE LET content == IF "content" \in DOMAIN http.body
                        THEN http.body.content ELSE <<>>
         IN  IF content = None THEN Raised(NoneStripMessage)
             ELSE Returned(Strip(content))

\* ------------------------------------------------------------------------
\* Node 1: query_decomposition_node
\* ------------------------------------------------------------------------

\* any(c.isdigit() for c in line[:3])
HasDigitPrefix(line) ==
    \E j \in 1..Len(Prefix(line, DigitPrefixLen)) : line[j] \in Digits

\* The list comprehension over response.strip().split('\n').
RECURSIVE KeepNumbered(_)
KeepNumbered(lines) ==
    IF lines = <<>> THEN <<>>
    ELSE LET line == Head(lines)
         IN  (IF Strip(line) # <<>> /\ HasDigitPrefix(line)
              THEN <<Strip(line)>> ELSE <<>>)
             \o KeepNumbered(Tail(lines))

ParseSubQueries(response) == KeepNumbered(SplitLines(Strip(response)))

\* The node.  e is str() of the exception raised in the try block (by the
\* call or by the print of line 105), or None; the except block prints it
\* before it stores the fallback and the diagnostic, and an exception of a
\* print outside the try block, or in the except block, leaves the node.
\* The mutant below is the node without its fallback `if not sub_queries`.
query_decomposition_node_nofallback(out, state, http) ==
    LET r           == CloudRunLLM_invoke(http)
        sub_queries == ParseSubQueries(r.value)
        e == IF ~r.ok THEN r.exc
             ELSE PrintError(out, DecomposedIntoText
                                    \o Decimal(Len(sub_queries))
                                    \o SubQueriesText)
    IN  AfterPrint(out, DecompositionBanner,
           IF e = None
           THEN Returned([state EXCEPT !.decomposed_queries = sub_queries])
           ELSE AfterPrint(out, ErrorInDecompositionText \o e,
                   Returned([state EXCEPT
                       !.decomposed_queries = <<state.original_query>>,
                       !.error = DecompositionErrorPrefix \o e])))

query_decomposition_node(out, state, http) ==
    LET r           == CloudRunLLM_invoke(http)
        parsed      == ParseSubQueries(r.value)
        sub_queries == IF parsed = <<>> THEN <<state.original_query>>
                       ELSE parsed
        e == IF ~r.ok THEN r.exc
             ELSE PrintError(out, DecomposedIntoText
                                    \o Decimal(Len(sub_queries))
                                    \o SubQueriesText)
    IN  AfterPrint(out, DecompositionBanner,
           IF e = None
           THEN Returned([state EXCEPT !.decomposed_queries = sub_queries])
           ELSE AfterPrint(out, ErrorInDecompositionText \o e,
                   Returned([state EXCEPT
                       !.decomposed_queries = <<state.original_query>>,
                       !.error = DecompositionErrorPrefix \o e])))

\* ------------------------------------------------------------------------
\* Node 2: retrieval_node
\* ------------------------------------------------------------------------

\* payload.get(k, default)
PayloadGet(payload, k, default) ==
    IF \E j \in 1..Len(payload) : payload[j].key = k
    THEN payload[CHOOSE j \in 1..Len(payload) : payload[j].key = k].value
    ELSE default

\* The dict built from one hit.
ContextItem(result, sub_query) ==
    [content        |-> PayloadGet(result.payload, "text_preview", <<>>),
     document_id    |-> PayloadGet(result.payload, "document_ID", UnknownText),
     section_number |-> PayloadGet(result.payload, "section_number",
                                   NotAvailableText),
     effective_date |-> PayloadGet(result.payload, "effective_date",
                                   UnknownText),
     jurisdiction   |-> PayloadGet(result.payload, "jurisdiction",
                                   UnknownText),
     score          |-> result.score,
     sub_query      |-> sub_query]

\* qdrant_client.search(..., limit=limit): the best `limit` of the points
\* that match, in rank order.
IndexSearch(ranked, limit) == Prefix(ranked, limit)

\* for result in search_results: all_contexts.append(context).  A hit whose
\* payload is None raises at result.payload.get; what was appended before
\* it stays in all_contexts.
RECURSIVE AppendHits(_, _, _)
AppendHits(all_contexts, search_results, sub_query) ==
    IF search_results = <<>> THEN [contexts |-> all_contexts, exc |-> None]
    ELSE IF Head(search_results).payload = None
    THEN [contexts |-> all_contexts, exc |-> NoneGetMessage]
    ELSE AppendHits(Append(all_contexts,
                           ContextItem(Head(search_results), sub_query)),
                    Tail(search_results), sub_query)

\* The iteration asking the index for one more point than limit=3.
RetrieveSubQuery_limit(out, loc, sub_query, ext) ==
    LET a == AppendHits(loc.all_contexts,
                        IndexSearch(ext.ranked, SearchLimit + 1), sub_query)
        e == IF ext.embed # None THEN ext.embed
             ELSE IF ext.search # None THEN ext.search
             ELSE a.exc
        kept == IF ext.embed # None \/ ext.search # None
                THEN loc.all_contexts ELSE a.contexts
    IN  AfterPrint(out, SearchingForText \o Prefix(sub_query, SearchEchoLen)
                           \o Ellipsis,
           IF e = None
           THEN Returned([loc EXCEPT !.all_contexts = a.contexts])
           ELSE AfterPrint(out, RetrievalErrorText \o e,
                   Returned([all_contexts |-> kept,
                             error |-> RetrievalErrorPrefix \o e])))

\* One iteration of the loop over state["decomposed_queries"].
\* ext is what the external calls did for this sub-query:
\*   [embed |-> None or the exception text of embeddings_model.encode,
\*    search |-> None or the exception text of qdrant_client.search,
\*    ranked |-> the matching points of the collection, best first]
\* loc is [all_contexts, error]: the local list and state["error"].
\* The print of line 123 is outside the try block: when it fails, the
\* exception leaves the node before the embedding is asked for.  The except
\* block prints the exception before it stores the diagnostic.
RetrieveSubQuery(out, loc, sub_query, ext) ==
    LET a == AppendHits(loc.all_contexts,
                        IndexSearch(ext.ranked, SearchLimit), sub_query)
        e == IF ext.embed # None THEN ext.embed
             ELSE IF ext.search # None THEN ext.search
             ELSE a.exc
        kept == IF ext.embed # None \/ ext.search # None
                THEN loc.all_contexts ELSE a.contexts
    IN  AfterPrint(out, SearchingForText \o Prefix(sub_query, SearchEchoLen)
                           \o Ellipsis,
           IF e = None
           THEN Returned([loc EXCEPT !.all_contexts = a.contexts])
           ELSE AfterPrint(out, RetrievalErrorText \o e,
                   Returned([all_contexts |-> kept,
                             error |-> RetrievalErrorPrefix \o e])))

\* ------------------------------------------------------------------------
\* Node 3: synthesis_node
\* ------------------------------------------------------------------------

\* 2^k modulo m
RECURSIVE PowMod2(_, _)
PowMod2(k, m) == IF k = 0 THEN 1 % m ELSE (2 * PowMod2(k - 1, m)) % m

\* The e with 2^e <= a / 10^4 < 2^(e+1), for a > 0.
RECURSIVE BinaryExponent(_)
BinaryExponent(a) ==
    IF a >= 2 * ScoreScale THEN BinaryExponent(a \div 2) + 1
    ELSE IF a < ScoreScale THEN BinaryExponent(2 * a) - 1
    ELSE 0

\* The float of a / 10^4 (a > 0) has a 53-bit significand m, the integer
\* nearest to a * 2^k / 10^4 for k = 52 - BinaryExponent(a).  The remainder
\* of a * 2^k by 10^4 tells where the float lies: 0 when it is a / 10^4
\* exactly, above 10^4 / 2 when m was rounded up (the float is larger),
\* below when m was rounded down (the float is smaller).  The remainder is
\* never 10^4 / 2, because 16 divides 2^k.
FloatRemainder(a) ==
    ((a % ScoreScale)
       * PowMod2(FloatBits - 1 - BinaryExponent(a), ScoreScale)) % ScoreScale

\* round(score, 3) for a score counted in units of 10^-4: round() rounds
\* the value the float has, ties of that value to even.  A score ending in
\* a digit other than 5 goes to the nearest multiple of ScoreUnit; one
\* ending in 5 goes where its float lies, and to the even multiple when the
\* float is exact.
Round3(score) ==
    LET a    == IF score < 0 THEN -score ELSE score
        q    == a \div ScoreUnit
        d    == a % ScoreUnit
        half == ScoreUnit \div 2
        up   == IF d # half THEN d > half
                ELSE IF FloatRemainder(a) = 0 THEN q % 2 = 1
                ELSE FloatRemainder(a) > ScoreScale \div 2
        m    == IF up THEN q + 1 ELSE q
    IN  (IF score < 0 THEN -m ELSE m) * ScoreUnit

\* str(TypeError) of None[:200]
NoneSubscriptMessage ==
    <<"'","N","o","n","e","T","y","p","e","'"," ","o","b","j","e","c","t",
      " ","i","s"," ","n","o","t"," ","s","u","b","s","c","r","i","p","t",
      "a","b","l","e">>

\* The record of a context whose content is a text.
CitationRecord(ctx) ==
    [document_id     |-> ctx.document_id,
     section_number  |-> ctx.section_number,
     effective_date  |-> ctx.effective_date,
     jurisdiction    |-> ctx.jurisdiction,
     relevance_score |-> Round3(ctx.score),
     snippet         |-> Prefix(ctx.content, SnippetLen) \o Ellipsis]

\* The key numbered from 0: f"source_{i}".
CitationKey_zero(i) == SourceKeyPrefix \o Decimal(i)

\* f"source_{i+1}" for the 0-based index i
CitationKey(i) == SourceKeyPrefix \o Decimal(i + 1)

\* The loop `for i, ctx in enumerate(contexts)` from position i (0-based).
\* A context whose content is None raises at ctx["content"][:200].
RECURSIVE BuildCitations(_, _, _)
BuildCitations(citations, contexts, i) ==
    IF i >= Len(contexts) THEN Returned(citations)
    ELSE IF contexts[i + 1].content = None
    THEN Raised(NoneSubscriptMessage)
    ELSE BuildCitations(
             DictSet(citations, CitationKey(i), CitationRecord(contexts[i + 1])),
             contexts, i + 1)

\* The node.  e is str() of the exception raised in the try block (by the
\* call, by the citation loop or by the print of line 208), or None; the
\* except block prints it before it stores the sentinel, the empty
\* citations and the diagnostic.
\* The mutant below is the node without its try/except: a failure in the
\* try block leaves the node.
synthesis_node_nocatch(out, state, http) ==
    LET r == CloudRunLLM_invoke(http)
        c == BuildCitations(EmptyDict, state.retrieved_contexts, 0)
        e == IF ~r.ok THEN r.exc
             ELSE IF ~c.ok THEN c.exc
             ELSE PrintError(out, GeneratedAnswerText
                                    \o Decimal(Len(c.value)) \o CitationsText)
    IN  AfterPrint(out, SynthesisBanner,
           IF e = None
           THEN Returned([state EXCEPT
                      !.synthesized_answer = Strip(r.value),
                      !.citations = c.value])
           ELSE Raised(e))

\* The node reading contexts[0] before its try block: an IndexError leaves
\* the node when no context was retrieved.
synthesis_node_first(out, state, http) ==
    LET r == CloudRunLLM_invoke(http)
        c == BuildCitations(EmptyDict, state.retrieved_contexts, 0)
        e == IF ~r.ok THEN r.exc
             ELSE IF ~c.ok THEN c.exc
             ELSE PrintError(out, GeneratedAnswerText
                                    \o Decimal(Len(c.value)) \o CitationsText)
    IN  AfterPrint(out, SynthesisBanner,
           IF state.retrieved_contexts = <<>>
           THEN Raised(<<"l","i","s","t"," ","i","n","d","e","x"," ","o","u",
                         "t"," ","o","f"," ","r","a","n","g","e">>)
           ELSE IF e = None
           THEN Returned([state EXCEPT
                      !.synthesized_answer = Strip(r.value),
                      !.citations = c.value])
           ELSE AfterPrint(out, SynthesisErrorText \o e,
                   Returned([state EXCEPT
                       !.synthesized_answer = SentinelAnswer,
                       !.citations = EmptyDict,
                       !.error = SynthesisErrorPrefix \o e])))

\* The node resetting state["error"] when its call succeeds.
synthesis_node_clear(out, state, http) ==
    LET r == CloudRunLLM_invoke(http)
        c == BuildCitations(EmptyDict, state.retrieved_contexts, 0)
        e == IF ~r.ok THEN r.exc
             ELSE IF ~c.ok THEN c.exc
             ELSE PrintError(out, GeneratedAnswerText
                                    \o Decimal(Len(c.value)) \o CitationsText)
    IN  AfterPrint(out, SynthesisBanner,
           IF e = None
           THEN Returned([state EXCEPT
                      !.synthesized_answer = Strip(r.value),
                      !.citations = c.value,
                      !.error = None])
           ELSE AfterPrint(out, SynthesisErrorText \o e,
                   Returned([state EXCEPT
                       !.synthesized_answer = SentinelAnswer,
                       !.citations = EmptyDict,
                       !.error = SynthesisErrorPrefix \o e])))

synthesis_node(out, state, http) ==
    LET r == CloudRunLLM_invoke(http)
        c == BuildCitations(EmptyDict, state.retrieved_contexts, 0)
        e == IF ~r.ok THEN r.exc
             ELSE IF ~c.ok THEN c.exc
             ELSE PrintError(out, GeneratedAnswerText
                                    \o Decimal(Len(c.value)) \o CitationsText)
    IN  AfterPrint(out, SynthesisBanner,
           IF e = None
           THEN Returned([state EXCEPT
                      !.synthesized_answer = Strip(r.value),
                      !.citations = c.value])
           ELSE AfterPrint(out, SynthesisErrorText \o e,
                   Returned([state EXCEPT
                       !.synthesized_answer = SentinelAnswer,
                       !.citations = EmptyDict,
                       !.error = SynthesisErrorPrefix \o e])))

\* ------------------------------------------------------------------------
\* Node 4: validation_node
\* ------------------------------------------------------------------------

\* The node with len(answer) >= 50.
validation_node_ge(out, state) ==
    LET has_content   == Len(state.synthesized_answer) >= MinAnswerLen
        has_citations == Len(state.citations) > 0
        passed        == has_content /\ has_citations
    IN  AfterPrint(out, ValidationBanner,
           AfterPrint(out, IF ~passed THEN ValidationFailedText
                           ELSE ValidationPassedText,
              Returned([state EXCEPT !.validation_passed = passed])))

\* The node with `has_content or has_citations`.
validation_node_or(out, state) ==
    LET has_content   == Len(state.synthesized_answer) > MinAnswerLen
        has_citations == Len(state.citations) > 0
        passed        == has_content \/ has_citations
    IN  AfterPrint(out, ValidationBanner,
           AfterPrint(out, IF ~passed THEN ValidationFailedText
                           ELSE ValidationPassedText,
              Returned([state EXCEPT !.validation_passed = passed])))

\* The node replacing an answer that fails validation by the sentinel.
validation_node_blank(out, state) ==
    LET has_content   == Len(state.synthesized_answer) > MinAnswerLen
        has_citations == Len(state.citations) > 0
        passed        == has_content /\ has_citations
    IN  AfterPrint(out, ValidationBanner,
           AfterPrint(out, IF ~passed THEN ValidationFailedText
                           ELSE ValidationPassedText,
              IF passed THEN Returned([state EXCEPT !.validation_passed = TRUE])
              ELSE Returned([state EXCEPT
                                !.validation_passed = FALSE,
                                !.synthesized_answer = SentinelAnswer])))

\* The node checking the length of the answer only.
validation_node_content(out, state) ==
    LET has_content   == Len(state.synthesized_answer) > MinAnswerLen
        has_citations == Len(state.citations) > 0
        passed        == has_content
    IN  AfterPrint(out, ValidationBanner,
           AfterPrint(out, IF ~passed THEN ValidationFailedText
                           ELSE ValidationPassedText,
              Returned([state EXCEPT !.validation_passed = passed])))

validation_node(out, state) ==
    LET has_content   == Len(state.synthesized_answer) > MinAnswerLen
        has_citations == Len(state.citations) > 0
        passed        == has_content /\ has_citations
    IN  AfterPrint(out, ValidationBanner,
           AfterPrint(out, IF ~passed THEN ValidationFailedText
                           ELSE ValidationPassedText,
              Returned([state EXCEPT !.validation_passed = passed])))

\* ------------------------------------------------------------------------
\* agent_workflow_invoke_sync
\* ------------------------------------------------------------------------

initial_state(query) ==
    [original_query     |-> query,
     decomposed_queries |-> <<>>,
     retrieved_contexts |-> <<>>,
     synthesized_answer |-> <<>>,
     citations          |-> EmptyDict,
     validation_passed  |-> FALSE,
     error              |-> None]

\* The four prints before the try block, then initial_state: an exception
\* of a print reaches the caller.
InvokeBegin(out, query, user_id) ==
    AfterPrint(out, <<"\n">> \o Rep("=", RuleLen),
       AfterPrint(out, ProcessingText \o user_id,
          AfterPrint(out, QueryText \o query,
             AfterPrint(out, Rep("=", RuleLen) \o <<"\n">>,
                Returned(initial_state(query))))))

\* The return of the try block.
InvokeResult(final_state) ==
    Returned([answer    |-> final_state.synthesized_answer,
              citations |-> final_state.citations])

\* The except block leaving the failure detail out of the answer.
InvokeOnException_nodetail(out, e) ==
    AfterPrint(out, CriticalErrorText \o e,
       Returned([answer    |-> ApologyPrefix,
                 citations |-> DictSet(EmptyDict, ErrorKey, e)]))

\* The except block: e is str() of the exception that left
\* agent_graph.invoke.  An exception of its print reaches the caller.
InvokeOnException(out, e) ==
    AfterPrint(out, CriticalErrorText \o e,
       Returned([answer    |-> ApologyPrefix \o e,
                 citations |-> DictSet(EmptyDict, ErrorKey, e)]))

\* ------------------------------------------------------------------------
\* Inputs: the query and what the external services answer
\* ------------------------------------------------------------------------

\* "What is ITAR?"
QueryItar == <<"W","h","a","t"," ","i","s"," ","I","T","A","R","?">>

\* "Rule 5"
QueryRule == <<"R","u","l","e"," ","5">>

Queries == {QueryItar, QueryRule}

\* "What is \ud800?": a query with a lone surrogate, as json.loads gives for
\* the escape \ud800.
QuerySurrogate ==
    <<"W","h","a","t"," ","i","s"," ",Chr(55296),"?">>

\* "Q\udc80": a query with a surrogate that surrogateescape writes.
QueryEscaped ==
    <<"Q",Chr(56448)>>

\* user_id: "u1", and one with a surrogate that surrogateescape writes.
UserPlain == <<"u", "1">>

UserEscaped == <<"u", Chr(56448)>>

Users == {UserPlain, UserEscaped}

\* "503 Server Error" and "Connection refused", texts of failures
ServerErrorText ==
    <<"5","0","3"," ","S","e","r","v","e","r"," ","E","r","r","o","r">>

ConnectionRefusedText ==
    <<"C","o","n","n","e","c","t","i","o","n"," ","r","e","f","u","s","e",
      "d">>

HttpTimeout == [kind |-> "timeout"]

HttpError == [kind |-> "request_error", detail |-> ServerErrorText]

HttpContent(text) == [kind |-> "json", body |-> [content |-> text]]

\* a JSON object whose content is null
HttpNullContent == [kind |-> "json", body |-> [content |-> None]]

\* a JSON object without a content key
HttpNoContent == [kind |-> "json", body |-> [model |-> <<"p">>]]

HttpFailures == {HttpTimeout, HttpError, HttpNullContent}

\* "<k>. q<k>", the k-th numbered sub-question
NumberedLine(k) == Decimal(k) \o <<".", " ", "q">> \o Decimal(k)

\* n numbered lines, one per line, with a trailing newline
NumberedResponse(n) == JoinLines([k \in 1..n |-> NumberedLine(k)]) \o <<"\n">>

\* A response in a loose layout: a kept line, a blank line, a numbered line
\* indented by three spaces (no digit in its first three characters), a
\* line with a digit as third character, a line without a digit.
LooseResponse ==
    <<" ", "1", ")", " ", "a", " ", "\n",
      "\n",
      " ", " ", " ", "2", ".", " ", "b", "\n",
      "a", "b", "3", " ", "c", "\n",
      "N", "o", "t", "e">>

\* A response of white space only, and one without a numbered line.
BlankResponse == <<" ", "\n", " ">>

\* A response whose lines end in carriage return and line feed.
CrlfResponse ==
    <<"1", ".", " ", "a", "\r", "\n", "2", ".", " ", "b", "\r", "\n">>

\* A response whose only numbered line starts with a superscript two.
SuperscriptResponse ==
    <<"z", "z", "\n", Chr(178), " ", "w", "\n", "z", "z">>

UnnumberedResponse == <<"n", "o", "n", "e">>

\* Responses with a lone surrogate in a numbered line: in the only line, in
\* the second of two lines, and one that surrogateescape writes.
SurrogateResponse ==
    <<"1","."," ","a"," ",Chr(55357)," ","b","\n">>

SecondSurrogateResponse ==
    <<"1","."," ","o","k","\n","2","."," ",Chr(55357),"\n">>

EscapedResponse ==
    <<"1","."," ","a"," ",Chr(56448)," ","b","\n">>

DecompContents ==
    {BlankResponse, UnnumberedResponse, LooseResponse, CrlfResponse,
     SuperscriptResponse, SurrogateResponse, SecondSurrogateResponse,
     EscapedResponse}
    \cup {NumberedResponse(n) : n \in 1..MaxLines}

DecompHttpFull ==
    HttpFailures \cup {HttpNoContent}
    \cup {HttpContent(c) : c \in DecompContents}

\* The k-th best point of the collection for a sub-query.
GoodHit(k) ==
    [score   |-> 9000 - 111 * k,
     payload |->
        <<[key |-> "document_ID",    value |-> <<"D">> \o Decimal(k)],
          [key |-> "effective_date", value |-> <<"2", "0", "2", "4">>],
          [key |-> "jurisdiction",   value |-> <<"U", "S">>],
          [key |-> "text_preview",   value |-> <<"t">> \o Decimal(k)],
          [key |-> "section_number", value |-> Decimal(120 + k)]>>]

\* A point stored without a payload.
BareHit == [score |-> 5004, payload |-> None]

\* A point whose payload has only a text, one character longer than a
\* snippet, and whose score lies halfway between two multiples of 0.001.
LongHit ==
    [score   |-> 8885,
     payload |->
        <<[key |-> "text_preview", value |-> Rep("x", SnippetLen) \o <<"y">>]>>]

\* A point whose text is null.
NullTextHit ==
    [score   |-> 7000,
     payload |->
        <<[key |-> "document_ID",  value |-> <<"D", "0">>],
          [key |-> "text_preview", value |-> None]>>]

RankedGood == [k \in 1..MaxRanked |-> GoodHit(k)]

RetrOk(ranked) == [embed |-> None, search |-> None, ranked |-> ranked]

RetrEmbedFails ==
    [embed |-> <<"O", "O", "M">>, search |-> None, ranked |-> <<>>]

RetrSearchFails ==
    [embed |-> None, search |-> ConnectionRefusedText, ranked |-> <<>>]

RetrFull ==
    {RetrEmbedFails, RetrSearchFails, RetrOk(<<>>), RetrOk(RankedGood),
     RetrOk(<<GoodHit(1), BareHit, GoodHit(2)>>), RetrOk(<<LongHit>>),
     RetrOk(<<NullTextHit>>)}

SynthContents ==
    {Rep("a", MinAnswerLen), Rep("a", MinAnswerLen + 1),
     <<" ">> \o Rep("a", MinAnswerLen) \o <<"\n">>,
     <<"\r", "\n">> \o Rep("a", MinAnswerLen + 1) \o <<Chr(160), "\f">>}

SynthHttpFull ==
    HttpFailures \cup {HttpNoContent}
    \cup {HttpContent(c) : c \in SynthContents}

Full ==
    [queries |-> Queries \cup {QuerySurrogate}, users |-> Users,
     decomp |-> DecompHttpFull, retr |-> RetrFull, synth |-> SynthHttpFull]

\* The inputs of the runs with two invocations side by side.
Small ==
    [queries |-> Queries \cup {QuerySurrogate}, users |-> {UserPlain},
     decomp  |-> {HttpTimeout, HttpContent(NumberedResponse(2)),
                  HttpContent(SecondSurrogateResponse)},
     retr    |-> {RetrSearchFails, RetrOk(<<GoodHit(1)>>)},
     synth   |-> {HttpTimeout, HttpContent(Rep("a", MinAnswerLen + 1))}]

\* The inputs of the runs whose standard output is not UTF-8 with the
\* handler strict.
Escaping ==
    [queries |-> {QueryItar, QueryEscaped, QuerySurrogate}, users |-> Users,
     decomp  |-> {HttpTimeout, HttpContent(NumberedResponse(2)),
                  HttpContent(EscapedResponse),
                  HttpContent(SurrogateResponse)},
     retr    |-> {RetrSearchFails, RetrOk(<<GoodHit(1)>>)},
     synth   |-> {HttpTimeout, HttpContent(Rep("a", MinAnswerLen + 1))}]

\* Every kind of answer under UTF-8 with the handler strict, fewer kinds
\* under the other standard outputs.
InputsFor(out) == IF out = Utf8Strict THEN Full ELSE Escaping

\* Texts of exceptions that leave agent_graph.invoke.
FaultMessages == {<<"b", "o", "o", "m">>, <<"b", "a", "d", " ", Chr(55296)>>}

\* ------------------------------------------------------------------------
\* State
\* ------------------------------------------------------------------------

\* The invocations of agent_workflow_invoke_sync that are followed.
Invs == {1, 2}

VARIABLES
    pc,            \* where each invocation is
    state,         \* its AgentState (Absent before it is created)
    all_contexts,  \* the local list of retrieval_node
    next_sub,      \* position of retrieval_node's loop (1-based)
    exc,           \* the exception that left agent_graph.invoke, or None
    outcome,       \* what agent_workflow_invoke_sync gave its caller
    resp,          \* what the external services answered, in call order
    stdout,        \* sys.stdout of the process
    ran,           \* the nodes that have returned their state, in order
    args           \* the query and user_id of the call (Absent before it)

vars == <<pc, state, all_contexts, next_sub, exc, outcome, resp, stdout, ran,
          args>>

Init ==
    /\ pc = [i \in Invs |-> "idle"]
    /\ state = [i \in Invs |-> Absent]
    /\ all_contexts = [i \in Invs |-> <<>>]
    /\ next_sub = [i \in Invs |-> 0]
    /\ exc = [i \in Invs |-> None]
    /\ outcome = [i \in Invs |-> Absent]
    /\ resp = [i \in Invs |-> <<>>]
    /\ stdout \in Stdouts
    /\ ran = [i \in Invs |-> <<>>]
    /\ args = [i \in Invs |-> Absent]

\* build_agent_graph: the entry point and the edges of the workflow.
EntryPoint == "decompose"

\* The graph with an edge from "retrieve" straight to "validate".
GraphEdge_skip(node) ==
    CASE node = "decompose"  -> "retrieve"
      [] node = "retrieve"   -> "validate"
      [] node = "synthesize" -> "validate"
      [] node = "validate"   -> "end"

GraphEdge(node) ==
    CASE node = "decompose"  -> "retrieve"
      [] node = "retrieve"   -> "synthesize"
      [] node = "synthesize" -> "validate"
      [] node = "validate"   -> "end"

\* agent_workflow_invoke_sync is called: after its prints initial_state is
\* built and agent_graph.invoke enters "decompose"; when a print fails, the
\* call raises to its caller.
Invoke(i, queries, users) ==
    /\ pc[i] = "idle"
    /\ \E q \in queries, u \in users :
          LET r == InvokeBegin(stdout, q, u)
          IN  /\ args' = [args EXCEPT ![i] = [query |-> q, user_id |-> u]]
              /\ IF r.ok
                 THEN /\ state' = [state EXCEPT ![i] = r.value]
                      /\ pc' = [pc EXCEPT ![i] = EntryPoint]
                      /\ outcome' = outcome
                 ELSE /\ state' = state
                      /\ pc' = [pc EXCEPT ![i] = "failed"]
                      /\ outcome' = [outcome EXCEPT ![i] = Raised(r.exc)]
    /\ UNCHANGED <<all_contexts, next_sub, exc, resp, stdout, ran>>

\* The node `node` ran and gave r: the graph goes on along its edge with the
\* state the node returned, or the exception it raised leaves
\* agent_graph.invoke.
NodeDone(i, r, node) ==
    IF r.ok
    THEN /\ state' = [state EXCEPT ![i] = r.value]
         /\ pc' = [pc EXCEPT ![i] = GraphEdge(node)]
         /\ ran' = [ran EXCEPT ![i] = Append(@, node)]
         /\ exc' = exc
    ELSE /\ state' = state
         /\ pc' = [pc EXCEPT ![i] = "raised"]
         /\ ran' = ran
         /\ exc' = [exc EXCEPT ![i] = r.exc]

Decompose(i, https) ==
    /\ pc[i] = "decompose"
    /\ \E http \in https :
          /\ NodeDone(i, query_decomposition_node(stdout, state[i], http),
                      "decompose")
          /\ resp' = IF PrintError(stdout, DecompositionBanner) = None
                     THEN [resp EXCEPT ![i] = Append(@, http)]
                     ELSE resp
    /\ UNCHANGED <<all_contexts, next_sub, outcome, stdout, args>>

\* retrieval_node with all_contexts as one list shared by the invocations:
\* the loop starts from what the other invocation collected.
RetrieveBegin_shared(i) ==
    /\ pc[i] = "retrieve"
    /\ all_contexts' = [all_contexts EXCEPT
                           ![i] = all_contexts[CHOOSE j \in Invs : j # i]]
    /\ next_sub' = [next_sub EXCEPT ![i] = 1]
    /\ pc' = [pc EXCEPT ![i] = "retrieve_loop"]
    /\ UNCHANGED <<state, exc, outcome, resp, stdout, ran, args>>

\* retrieval_node up to the loop: the print of line 118 and
\* all_contexts = []
RetrieveBegin(i) ==
    /\ pc[i] = "retrieve"
    /\ LET e == PrintError(stdout, RetrievalBanner)
       IN  IF e = None
           THEN /\ all_contexts' = [all_contexts EXCEPT ![i] = <<>>]
                /\ next_sub' = [next_sub EXCEPT ![i] = 1]
                /\ pc' = [pc EXCEPT ![i] = "retrieve_loop"]
                /\ exc' = exc
           ELSE /\ pc' = [pc EXCEPT ![i] = "raised"]
                /\ exc' = [exc EXCEPT ![i] = e]
                /\ UNCHANGED <<all_contexts, next_sub>>
    /\ UNCHANGED <<state, outcome, resp, stdout, ran, args>>

\* one iteration of the loop
RetrieveSub(i, exts) ==
    /\ pc[i] = "retrieve_loop"
    /\ next_sub[i] <= Len(state[i].decomposed_queries)
    /\ \E ext \in exts :
          LET sub_query == state[i].decomposed_queries[next_sub[i]]
              r == RetrieveSubQuery(stdout,
                                    [all_contexts |-> all_contexts[i],
                                     error |-> state[i].error],
                                    sub_query, ext)
              searched == PrintError(stdout,
                             SearchingForText
                                \o Prefix(sub_query, SearchEchoLen)
                                \o Ellipsis) = None
          IN  /\ resp' = IF searched
                         THEN [resp EXCEPT ![i] = Append(@, ext)]
                         ELSE resp
              /\ IF r.ok
                 THEN /\ all_contexts' = [all_contexts EXCEPT
                                             ![i] = r.value.all_contexts]
                      /\ state' = [state EXCEPT ![i].error = r.value.error]
                      /\ next_sub' = [next_sub EXCEPT ![i] = @ + 1]
                      /\ UNCHANGED <<pc, exc>>
                 ELSE /\ pc' = [pc EXCEPT ![i] = "raised"]
                      /\ exc' = [exc EXCEPT ![i] = r.exc]
                      /\ UNCHANGED <<all_contexts, state, next_sub>>
    /\ UNCHANGED <<outcome, stdout, ran, args>>

\* retrieval_node storing its list in an AgentState that all invocations
\* share.
RetrieveEnd_shared(i) ==
    /\ pc[i] = "retrieve_loop"
    /\ next_sub[i] > Len(state[i].decomposed_queries)
    /\ state' = [j \in Invs |->
                    IF state[j] = Absent THEN state[j]
                    ELSE [state[j] EXCEPT
                             !.retrieved_contexts = all_contexts[i]]]
    /\ pc' = [pc EXCEPT ![i] = GraphEdge("retrieve")]
    /\ ran' = [ran EXCEPT ![i] = Append(@, "retrieve")]
    /\ UNCHANGED <<all_contexts, next_sub, exc, outcome, resp, stdout, args>>

\* after the loop: state["retrieved_contexts"] = all_contexts, the print of
\* line 156 and the return
RetrieveEnd(i) ==
    /\ pc[i] = "retrieve_loop"
    /\ next_sub[i] > Len(state[i].decomposed_queries)
    /\ NodeDone(i,
          AfterPrint(stdout,
             RetrievedText \o Decimal(Len(all_contexts[i]))
                \o TotalContextsText,
             Returned([state[i] EXCEPT
                          !.retrieved_contexts = all_contexts[i]])),
          "retrieve")
    /\ UNCHANGED <<all_contexts, next_sub, outcome, resp, stdout, args>>

Synthesize(i, https) ==
    /\ pc[i] = "synthesize"
    /\ \E http \in https :
          /\ NodeDone(i, synthesis_node(stdout, state[i], http),
                      "synthesize")
          /\ resp' = IF PrintError(stdout, SynthesisBanner) = None
                     THEN [resp EXCEPT ![i] = Append(@, http)]
                     ELSE resp
    /\ UNCHANGED <<all_contexts, next_sub, outcome, stdout, args>>

Validate(i) ==
    /\ pc[i] = "validate"
    /\ NodeDone(i, validation_node(stdout, state[i]), "validate")
    /\ UNCHANGED <<all_contexts, next_sub, outcome, resp, stdout, args>>

\* agent_graph.invoke returned final_state
InvokeReturn(i) ==
    /\ pc[i] = "end"
    /\ outcome' = [outcome EXCEPT ![i] = InvokeResult(state[i])]
    /\ pc' = [pc EXCEPT ![i] = "returned"]
    /\ UNCHANGED <<state, all_contexts, next_sub, exc, resp, stdout, ran,
                   args>>

\* An exception that no node catches leaves agent_graph.invoke.
GraphPositions ==
    {"decompose", "retrieve", "retrieve_loop", "synthesize", "validate", "end"}

GraphRaise(i) ==
    /\ pc[i] \in GraphPositions
    /\ \E e \in FaultMessages : exc' = [exc EXCEPT ![i] = e]
    /\ pc' = [pc EXCEPT ![i] = "raised"]
    /\ UNCHANGED <<state, all_contexts, next_sub, outcome, resp, stdout, ran,
                   args>>

\* the except block of agent_workflow_invoke_sync: it returns the error
\* result, or its print fails and the call raises to its caller
InvokeCatch(i) ==
    /\ pc[i] = "raised"
    /\ LET r == InvokeOnException(stdout, exc[i])
       IN  /\ outcome' = [outcome EXCEPT ![i] = r]
           /\ pc' = [pc EXCEPT ![i] = IF r.ok THEN "returned" ELSE "failed"]
    /\ UNCHANGED <<state, all_contexts, next_sub, exc, resp, stdout, ran,
                   args>>

Step(i, in) ==
    \/ Invoke(i, in.queries, in.users)
    \/ Decompose(i, in.decomp)
    \/ RetrieveBegin(i)
    \/ RetrieveSub(i, in.retr)
    \/ RetrieveEnd(i)
    \/ Synthesize(i, in.synth)
    \/ Validate(i)
    \/ InvokeReturn(i)
    \/ InvokeCatch(i)

\* One invocation, every kind of standard output and of answer of the
\* external services.
Next == Step(1, InputsFor(stdout))

Spec == Init /\ [][Next]_vars

\* The same, and an exception may leave the graph at any point.
NextFault == Next \/ GraphRaise(1)

SpecFault == Init /\ [][NextFault]_vars

\* Two invocations side by side.
NextPair == \E i \in Invs : Step(i, Small)

SpecPair == Init /\ [][NextPair]_vars

\* ------------------------------------------------------------------------
\* Vocabulary of the properties
\* ------------------------------------------------------------------------

\* The characters of the texts of the runs.
Alphabet == Ascii \cup Whitespace \cup Digits \cup Surrogates

IsText(t) == t # None /\ \A j \in 1..Len(t) : t[j] \in Alphabet

IsMapping(d) ==
    /\ d # None
    /\ \A j \in 1..Len(d) : DOMAIN d[j] = {"key", "value"}
    /\ \A j, k \in 1..Len(d) : d[j].key = d[k].key => j = k

\* The nodes of the graph in the order of its edges.
NodeOrder == <<"decompose", "retrieve", "synthesize", "validate">>

\* The node has returned its state in invocation i.
Ran(i, node) == \E k \in 1..Len(ran[i]) : ran[i][k] = node

DecompositionRan(i) == Ran(i, "decompose")

RetrievalRan(i) == Ran(i, "retrieve")

SynthesisRan(i) == Ran(i, "synthesize")

ValidationRan(i) == Ran(i, "validate")

\* The call has ended: it returned a result or raised to its caller.
Ended(i) == pc[i] \in {"returned", "failed"}

\* The external answers an invocation has received so far: first the
\* decomposition call, then one per sub-query, then the synthesis call.
DecompositionCalled(i) == Len(resp[i]) >= 1

SynthesisCalled(i) ==
    /\ RetrievalRan(i)
    /\ Len(resp[i]) = Len(state[i].decomposed_queries) + 2

SynthesisHttp(i) == resp[i][Len(resp[i])]

\* The decomposition answers from which no line is kept.
DecompZeroLines ==
    HttpFailures
    \cup {HttpNoContent, HttpContent(BlankResponse),
          HttpContent(UnnumberedResponse)}

\* "source_<j>" for j < 100
SourceKey(j) ==
    SourceKeyPrefix \o
    (IF j < 10 THEN <<DigitChar[j + 1]>>
     ELSE <<DigitChar[(j \div 10) + 1], DigitChar[(j % 10) + 1]>>)

\* rec is the citation record of the context ctx.
IsRecordOf(rec, ctx) ==
    /\ rec.document_id = ctx.document_id
    /\ rec.section_number = ctx.section_number
    /\ rec.effective_date = ctx.effective_date
    /\ rec.jurisdiction = ctx.jurisdiction
    /\ rec.relevance_score % 10 = 0
    /\ rec.relevance_score - ctx.score \in -5..5
    /\ rec.snippet =
          (IF Len(ctx.content) <= 200 THEN ctx.content
           ELSE SubSeq(ctx.content, 1, 200)) \o <<".", ".", ".">>

\* citations has the keys source_1 .. source_n in the order of
\* retrieved_contexts, each with the record of its context.
CitationsCoverContexts(st) ==
    /\ Len(st.citations) = Len(st.retrieved_contexts)
    /\ \A j \in 1..Len(st.citations) :
          /\ st.citations[j].key = SourceKey(j)
          /\ st.retrieved_contexts[j].content # None
          /\ IsRecordOf(st.citations[j].value, st.retrieved_contexts[j])

\* One of the retrieved contexts has a null text.
SomeContentNull(st) ==
    \E j \in 1..Len(st.retrieved_contexts) :
       st.retrieved_contexts[j].content = None

\* a is the text c without its leading and trailing white space.
IsTrimOf(a, c) ==
    /\ a # <<>> => a[1] \notin Whitespace /\ a[Len(a)] \notin Whitespace
    /\ \E k \in 0..Len(c) :
          /\ k + Len(a) <= Len(c)
          /\ a = SubSeq(c, k + 1, k + Len(a))
          /\ \A j \in 1..k : c[j] \in Whitespace
          /\ \A j \in (k + Len(a) + 1)..Len(c) : c[j] \in Whitespace

\* ------------------------------------------------------------------------
\* Properties
\* ------------------------------------------------------------------------

\* C1: agent_workflow_invoke_sync never raises to its caller and always
\* returns a mapping with exactly the keys answer (a text) and citations
\* (a mapping), whatever the query, whatever the external calls did and
\* whether or not an exception left the graph.  Checked under SpecFault;
\* the code violates it: a print outside the try block (lines 265-268) or
\* inside the except block (line 289) fails on a text that standard output
\* cannot encode, and the exception reaches the caller.
C1_ResultWellFormed ==
    \A i \in Invs :
       /\ pc[i] # "failed"
       /\ (pc[i] = "returned") <=> (outcome[i] # Absent)
       /\ pc[i] = "raised" => ENABLED InvokeCatch(i)
       /\ outcome[i] # Absent =>
             /\ outcome[i].ok
             /\ DOMAIN outcome[i].value = {"answer", "citations"}
             /\ IsText(outcome[i].value.answer)
             /\ IsMapping(outcome[i].value.citations)

\* C2: when an exception escapes a node, the call still returns, and its
\* result is the error result: the apology followed by the failure detail,
\* and citations with the single key error holding the detail; nothing of
\* the state built so far is returned.
C2_ErrorResult ==
    \A i \in Invs :
       exc[i] # None =>
          /\ pc[i] \in {"raised", "returned"}
          /\ pc[i] = "raised" => ENABLED InvokeCatch(i)
          /\ pc[i] = "returned" =>
                /\ outcome[i].ok
                /\ outcome[i].value.answer = ApologyPrefix \o exc[i]
                /\ outcome[i].value.citations =
                      <<[key |-> ErrorKey, value |-> exc[i]]>>

\* The print of the second sub-query failed in the retrieval node after the
\* first sub-query had retrieved contexts; the call returned the error result.
C2_Witness ==
    /\ pc[1] = "returned"
    /\ exc[1] # None
    /\ DecompositionRan(1)
    /\ ~RetrievalRan(1)
    /\ Len(state[1].decomposed_queries) = 2
    /\ Len(all_contexts[1]) >= 1

\* C3: after the decomposition node, decomposed_queries is not empty, and it
\* is exactly [original_query] when the call failed or no line was kept; the
\* node returns whatever the call did.
C3_DecompositionFallback ==
    \A i \in Invs :
       DecompositionCalled(i) =>
          /\ DecompositionRan(i)
          /\ state[i].decomposed_queries # <<>>
          /\ resp[i][1] \in DecompZeroLines =>
                state[i].decomposed_queries = <<state[i].original_query>>

\* The model answered without a numbered line and the node fell back.
C3_Witness ==
    /\ DecompositionRan(1)
    /\ resp[1][1] = HttpContent(UnnumberedResponse)
    /\ state[1].decomposed_queries = <<QueryItar>>

\* C4 as stated: in every state after the synthesis node, the keys of
\* citations are exactly source_1 .. source_n, n = len(retrieved_contexts),
\* in context order, each with the record of its context.
C4_CitationsAlwaysCoverContexts ==
    \A i \in Invs : SynthesisRan(i) => CitationsCoverContexts(state[i])

\* C4 amended: that holds when the synthesis node succeeded; when it failed
\* (its call failed, or a retrieved context has a null text, on which the
\* building of the citations fails), citations is empty whatever was
\* retrieved.
C4_CitationsCoverContexts ==
    \A i \in Invs :
       SynthesisRan(i) =>
          IF SynthesisHttp(i) \in HttpFailures \/ SomeContentNull(state[i])
          THEN state[i].citations = <<>>
          ELSE CitationsCoverContexts(state[i])

\* A successful synthesis over at least ten contexts (two-digit keys), one
\* of them without payload keys and with a text longer than a snippet.
C4_Witness ==
    /\ pc[1] = "returned"
    /\ SynthesisHttp(1) \notin HttpFailures
    /\ Len(state[1].citations) >= 10
    /\ \E j \in 1..Len(state[1].retrieved_contexts) :
          Len(state[1].retrieved_contexts[j].content) > 200

\* C5: after the validation node, validation_passed is true exactly when
\* len(synthesized_answer) > 50 and len(citations) > 0; length 50 gives
\* false, length 51 with a citation gives true.
C5_ValidationPredicate ==
    \A i \in Invs :
       ValidationRan(i) =>
          /\ state[i].validation_passed =
                (Len(state[i].synthesized_answer) > 50
                 /\ Len(state[i].citations) > 0)
          /\ Len(state[i].synthesized_answer) = 50 =>
                ~state[i].validation_passed
          /\ (Len(state[i].synthesized_answer) = 51
              /\ Len(state[i].citations) >= 1) =>
                state[i].validation_passed

\* An answer of exactly 50 characters with citations was rejected.
C5_Witness ==
    /\ pc[1] = "end"
    /\ Len(state[1].synthesized_answer) = 50
    /\ Len(state[1].citations) >= 1
    /\ ~state[1].validation_passed

\* What the external services answered for the sub-queries of invocation i
\* (positions 2 .. n+1 of resp).
RetrievalAnswers(i) ==
    {resp[i][j] : j \in 2..(Len(state[i].decomposed_queries) + 1)}

AllRetrievalFailed(i) ==
    /\ RetrievalRan(i)
    /\ \A ext \in RetrievalAnswers(i) : ext.embed # None \/ ext.search # None

\* C6: after the retrieval node, len(retrieved_contexts) is at most
\* len(decomposed_queries) * 3, whatever succeeded and failed; inside the
\* loop the list holds at most 3 items per sub-query processed.
C6_ContextBound ==
    \A i \in Invs :
       /\ pc[i] = "retrieve_loop" =>
             Len(all_contexts[i]) <= (next_sub[i] - 1) * 3
       /\ RetrievalRan(i) =>
             Len(state[i].retrieved_contexts)
                <= Len(state[i].decomposed_queries) * 3

\* The bound is attained with more than one sub-query.
C6_Witness ==
    /\ pc[1] = "synthesize"
    /\ Len(state[1].decomposed_queries) >= 2
    /\ Len(state[1].retrieved_contexts)
          = Len(state[1].decomposed_queries) * 3

\* C7: when the call of the synthesis node fails, the node does not raise:
\* synthesized_answer is "Error generating answer.", citations is empty,
\* error holds the failure, and the invocation returns that answer and
\* those citations.
C7_SynthesisFailureContained ==
    \A i \in Invs :
       (SynthesisCalled(i) /\ SynthesisHttp(i) \in HttpFailures) =>
          /\ SynthesisRan(i)
          /\ exc[i] = None
          /\ pc[i] # "failed"
          /\ state[i].synthesized_answer = SentinelAnswer
          /\ state[i].citations = <<>>
          /\ state[i].error # None
          /\ Prefix(state[i].error, Len(SynthesisErrorPrefix))
                = SynthesisErrorPrefix
          /\ Len(state[i].error) > Len(SynthesisErrorPrefix)
          /\ pc[i] = "returned" =>
                outcome[i] = [ok |-> TRUE,
                              value |-> [answer |-> SentinelAnswer,
                                         citations |-> <<>>]]

\* The synthesis call timed out after contexts had been retrieved, and the
\* invocation returned.
C7_Witness ==
    /\ pc[1] = "returned"
    /\ SynthesisRan(1)
    /\ SynthesisHttp(1) = HttpTimeout
    /\ Len(state[1].retrieved_contexts) >= 1

\* C8: when the embedding or the search fails for every sub-query,
\* retrieved_contexts is empty after the retrieval node, the synthesis and
\* validation nodes still run (nothing raises, a step is possible until the
\* invocation has returned, the synthesis call is made), and
\* validation_passed is false at the end.
C8_AllRetrievalFailed ==
    \A i \in Invs :
       AllRetrievalFailed(i) =>
          /\ state[i].retrieved_contexts = <<>>
          /\ exc[i] = None
          /\ pc[i] # "failed"
          /\ pc[i] # "returned" => ENABLED Next
          /\ ValidationRan(i) =>
                /\ SynthesisCalled(i)
                /\ SynthesisRan(i)
                /\ ~state[i].validation_passed
          /\ pc[i] = "returned" => outcome[i].ok /\ ValidationRan(i)

\* Two or more sub-queries all failed, the model still gave a long answer,
\* and validation rejected it.
C8_Witness ==
    /\ pc[1] = "returned"
    /\ AllRetrievalFailed(1)
    /\ Len(state[1].decomposed_queries) >= 2
    /\ Len(state[1].synthesized_answer) > 50
    /\ ~state[1].validation_passed

\* C9: when the synthesis node receives an empty retrieved_contexts it
\* returns without raising, citations is empty, and synthesized_answer is
\* the model's text (without outer white space) or the sentinel when the
\* call failed.
C9_SynthesisOnEmptyContexts ==
    \A i \in Invs :
       (SynthesisCalled(i) /\ state[i].retrieved_contexts = <<>>) =>
          /\ SynthesisRan(i)
          /\ exc[i] = None
          /\ state[i].citations = <<>>
          /\ IF SynthesisHttp(i) \in HttpFailures
             THEN state[i].synthesized_answer = SentinelAnswer
             ELSE IF SynthesisHttp(i) = HttpNoContent
             THEN state[i].synthesized_answer = <<>>
             ELSE IsTrimOf(state[i].synthesized_answer,
                           SynthesisHttp(i).body.content)

\* The node ran on no context and kept the model's text, cut of its outer
\* white space.
C9_Witness ==
    /\ pc[1] = "validate"
    /\ state[1].retrieved_contexts = <<>>
    /\ SynthesisHttp(1) =
          HttpContent(<<"\r", "\n">> \o Rep("a", MinAnswerLen + 1)
                         \o <<Chr(160), "\f">>)
    /\ state[1].synthesized_answer = Rep("a", MinAnswerLen + 1)

\* C10: two invocations with the same query that received the same external
\* answers end the same way with the same result, however their steps were
\* interleaved.  Checked under SpecPair.
C10_Deterministic ==
    (/\ Ended(1)
     /\ Ended(2)
     /\ args[1] = args[2]
     /\ resp[1] = resp[2])
    => (pc[1] = pc[2] /\ outcome[1] = outcome[2])

\* Both returned the same citations for the same query and answers.
C10_Witness ==
    /\ pc[1] = "returned"
    /\ pc[2] = "returned"
    /\ args[1] = args[2]
    /\ resp[1] = resp[2]
    /\ Len(outcome[1].value.citations) >= 2
    /\ outcome[1] = outcome[2]

\* The whole of retrieval_node's loop, from sub-query k on, run in one go on
\* the answers of the external services.
RECURSIVE RetrieveFrom(_, _, _, _, _)
RetrieveFrom(out, loc, sub_queries, answers, k) ==
    IF k > Len(sub_queries) THEN Returned(loc)
    ELSE LET r == RetrieveSubQuery(out, loc, sub_queries[k],
                                   IF k + 1 <= Len(answers)
                                   THEN answers[k + 1] ELSE None)
         IN  IF r.ok
             THEN RetrieveFrom(out, r.value, sub_queries, answers, k + 1)
             ELSE r

\* retrieval_node run in one go.
retrieval_node(out, st, answers) ==
    AfterPrint(out, RetrievalBanner,
       LET l == RetrieveFrom(out,
                             [all_contexts |-> <<>>, error |-> st.error],
                             st.decomposed_queries, answers, 1)
       IN  IF ~l.ok THEN l
           ELSE AfterPrint(out,
                   RetrievedText \o Decimal(Len(l.value.all_contexts))
                      \o TotalContextsText,
                   Returned([st EXCEPT
                       !.retrieved_contexts = l.value.all_contexts,
                       !.error = l.value.error])))

\* What agent_workflow_invoke_sync(query, user_id) does when it runs with
\* nothing else going on and the external services give `answers`.
RunAlone(out, query, user_id, answers) ==
    LET b == InvokeBegin(out, query, user_id)
        d == query_decomposition_node(out, b.value, answers[1])
        r == IF d.ok THEN retrieval_node(out, d.value, answers) ELSE d
        s == IF r.ok
             THEN synthesis_node(out, r.value, answers[Len(answers)])
             ELSE r
        v == IF s.ok THEN validation_node(out, s.value) ELSE s
    IN  IF ~b.ok THEN b
        ELSE IF v.ok THEN InvokeResult(v.value)
        ELSE InvokeOnException(out, v.exc)

\* Nothing of invocation j changes in the step.
Untouched(j) ==
    /\ pc'[j] = pc[j]
    /\ state'[j] = state[j]
    /\ all_contexts'[j] = all_contexts[j]
    /\ next_sub'[j] = next_sub[j]
    /\ exc'[j] = exc[j]
    /\ outcome'[j] = outcome[j]
    /\ resp'[j] = resp[j]
    /\ ran'[j] = ran[j]
    /\ args'[j] = args[j]

\* C11: concurrent invocations are isolated.  Every step is a step of one
\* invocation and leaves the state, the local list and the result of every
\* other invocation as they were, and under every interleaving an
\* invocation ends as it would end running alone with the same external
\* answers.  Checked under SpecPair.
C11_Isolated ==
    /\ [][\E i \in Invs : \A j \in Invs \ {i} : Untouched(j)]_vars
    /\ [](\A i \in Invs :
             Ended(i) =>
                outcome[i] = RunAlone(stdout, args[i].query,
                                      args[i].user_id, resp[i]))

\* Invocation 1 has returned without citations while invocation 2, with
\* another query, is inside its retrieval loop holding a context.
C11_Witness ==
    /\ pc[1] = "returned"
    /\ outcome[1].value.citations = <<>>
    /\ pc[2] = "retrieve_loop"
    /\ next_sub[2] = 2
    /\ Len(all_contexts[2]) = 1
    /\ state[1].original_query # state[2].original_query

\* C12: after the decomposition node, decomposed_queries holds at most 3
\* sub-queries, whatever text the model returned.
C12_AtMostThreeSubQueries ==
    \A i \in Invs :
       DecompositionRan(i) => Len(state[i].decomposed_queries) <= 3

\* str() of the exception CloudRunLLM.invoke raises for a failed call.
FailureText(http) ==
    IF http = HttpTimeout THEN TimeoutMessage
    ELSE IF http = HttpNullContent THEN NoneStripMessage
    ELSE RequestFailedPrefix \o http.detail

\* The processing of a sub-query failed: the embedding or the search raised,
\* or one of the hits the search returned has no payload.
SubQueryFailed(ext) ==
    \/ ext.embed # None
    \/ ext.search # None
    \/ \E k \in 1..Min(3, Len(ext.ranked)) : ext.ranked[k].payload = None

SubQueryFailureText(ext) ==
    IF ext.embed # None THEN ext.embed
    ELSE IF ext.search # None THEN ext.search
    ELSE NoneGetMessage

\* The j-th external answer of invocation i made its stage fail: a failed
\* call, a failed sub-query, or a synthesis call that succeeded over a
\* context with a null text.
FailedAt(i, j) ==
    LET n == Len(state[i].decomposed_queries)
    IN  IF j = 1 THEN resp[i][j] \in HttpFailures
        ELSE IF j = n + 2
        THEN resp[i][j] \in HttpFailures \/ SomeContentNull(state[i])
        ELSE SubQueryFailed(resp[i][j])

\* The diagnostic that failure writes to state["error"].
DiagnosticAt(i, j) ==
    LET n == Len(state[i].decomposed_queries)
    IN  IF j = 1 THEN DecompositionErrorPrefix \o FailureText(resp[i][j])
        ELSE IF j = n + 2
        THEN SynthesisErrorPrefix \o
                (IF resp[i][j] \in HttpFailures THEN FailureText(resp[i][j])
                 ELSE NoneSubscriptMessage)
        ELSE RetrievalErrorPrefix \o SubQueryFailureText(resp[i][j])

Failures(i) == {j \in 1..Len(resp[i]) : FailedAt(i, j)}

LastFailure(i) ==
    CHOOSE j \in Failures(i) : \A k \in Failures(i) : k <= j

FirstFailure(i) ==
    CHOOSE j \in Failures(i) : \A k \in Failures(i) : j <= k

\* C13 as stated: error is write-once; once set, no later step replaces it.
C13_ErrorWriteOnce ==
    [][\A i \in Invs :
          (state[i] # Absent /\ state[i].error # None) =>
             state'[i].error = state[i].error]_vars

\* C13 amended: error is never cleared, but it is not write-once: every
\* later failure replaces it, so at any time it holds the diagnostic of the
\* last failure so far (and none when nothing has failed).
C13_ErrorHoldsLastFailure ==
    /\ [][\A i \in Invs :
             (state[i] # Absent /\ state[i].error # None) =>
                state'[i].error # None]_vars
    /\ [](\A i \in Invs :
             state[i] # Absent =>
                IF Failures(i) = {} THEN state[i].error = None
                ELSE state[i].error = DiagnosticAt(i, LastFailure(i)))

\* The decomposition call timed out, a later sub-query failed, synthesis
\* succeeded: the final error is the retrieval diagnostic, not the first.
C13_Witness ==
    /\ pc[1] = "returned"
    /\ SynthesisRan(1)
    /\ resp[1][1] = HttpTimeout
    /\ Failures(1) # {}
    /\ FirstFailure(1) = 1
    /\ LastFailure(1) = 2
    /\ state[1].error = RetrievalErrorPrefix \o ConnectionRefusedText

\* The moves of an invocation from one position to the next: the entry,
\* the four nodes in their order (retrieve with its loop), the return.
StageOrder ==
    {<<"idle", "decompose">>, <<"decompose", "retrieve">>,
     <<"retrieve", "retrieve_loop">>, <<"retrieve_loop", "synthesize">>,
     <<"synthesize", "validate">>, <<"validate", "end">>,
     <<"end", "returned">>}

\* The moves that end an invocation on an exception: a print of the
\* prologue fails, an exception leaves a node, the except block returns or
\* its print fails.
AbortMoves ==
    {<<"idle", "failed">>, <<"raised", "returned">>, <<"raised", "failed">>}
    \cup {<<p, "raised">> : p \in GraphPositions}

\* s is an initial part of t.
IsPrefix(s, t) == Len(s) <= Len(t) /\ s = SubSeq(t, 1, Len(s))

\* C14: within an invocation the stages run in the fixed order decompose,
\* retrieve, synthesize, validate, each exactly once: every change of
\* position is a move to the next position of that chain (so none is
\* skipped, repeated or entered early) or the end of the invocation on an
\* exception, the nodes that have returned are at any time an initial part
\* of the chain, the retrieval loop handles the sub-queries one by one and
\* goes on to synthesis only after the last, and an invocation that has
\* returned without an exception ran all four nodes and made exactly one
\* decomposition call, one search round per sub-query and one synthesis
\* call, whatever the state held.
C14_FixedStageOrder ==
    /\ [][\A i \in Invs :
             /\ pc'[i] # pc[i] =>
                   <<pc[i], pc'[i]>> \in StageOrder \cup AbortMoves
             /\ (pc[i] = "retrieve_loop" /\ pc'[i] = "retrieve_loop") =>
                   next_sub'[i] \in {next_sub[i], next_sub[i] + 1}
             /\ (pc[i] = "retrieve_loop" /\ pc'[i] = "synthesize") =>
                   next_sub[i] = Len(state[i].decomposed_queries) + 1]_vars
    /\ [](\A i \in Invs :
             /\ IsPrefix(ran[i], NodeOrder)
             /\ (pc[i] = "returned" /\ exc[i] = None) =>
                   /\ ran[i] = NodeOrder
                   /\ Len(resp[i]) = Len(state[i].decomposed_queries) + 2
                   /\ outcome[i] = InvokeResult(state[i]))

\* All four nodes ran although decomposition fell back with an error, nothing
\* was retrieved, synthesis failed and validation did not pass.
C14_Witness ==
    /\ pc[1] = "returned"
    /\ ran[1] = NodeOrder
    /\ resp[1][1] = HttpTimeout
    /\ state[1].decomposed_queries = <<state[1].original_query>>
    /\ state[1].retrieved_contexts = <<>>
    /\ Len(resp[1]) = 3
    /\ resp[1][3] = HttpError
    /\ state[1].error # None
    /\ ~state[1].validation_passed

\* C15: whenever the decomposition node falls back to [original_query]
\* (failed call, empty response, no line kept), it records a diagnostic:
\* right after the node, error is not None.
C15_FallbackRecordsError ==
    \A i \in Invs :
       (pc[i] = "retrieve" /\ resp[i][1] \in DecompZeroLines) =>
          /\ state[i].decomposed_queries = <<state[i].original_query>>
          /\ state[i].error # None

\* The contexts of the hits the search returned for the sub-query, in rank
\* order.
HitsOf(ext, sub_query) ==
    [k \in 1..Min(3, Len(ext.ranked)) |->
        ContextItem(ext.ranked[k], sub_query)]

\* The contributions of the sub-queries from the k-th on, a failed one
\* contributing nothing.
RECURSIVE SucceededHitsFrom(_, _)
SucceededHitsFrom(i, k) ==
    IF k > Len(state[i].decomposed_queries) THEN <<>>
    ELSE (IF SubQueryFailed(resp[i][k + 1]) THEN <<>>
          ELSE HitsOf(resp[i][k + 1], state[i].decomposed_queries[k]))
         \o SucceededHitsFrom(i, k + 1)

\* C16: after the retrieval node, retrieved_contexts is the concatenation, in
\* sub-query order, of the hits of exactly the sub-queries whose processing
\* succeeded; a sub-query that fails at any point (embedding, search,
\* building a context from a hit) contributes nothing, sets error, and the
\* remaining sub-queries are still processed.
C16_OnlySucceededSubQueries ==
    \A i \in Invs :
       /\ pc[i] = "synthesize" =>
             /\ state[i].retrieved_contexts = SucceededHitsFrom(i, 1)
             /\ Len(resp[i]) = Len(state[i].decomposed_queries) + 1
             /\ (\E ext \in RetrievalAnswers(i) : SubQueryFailed(ext)) =>
                   state[i].error # None
       /\ (DecompositionRan(i) /\ Ended(i)) => RetrievalRan(i)

\* C17: the validation node changes nothing but validation_passed: the
\* other six fields are the same after it as before it, and the invocation
\* returns the answer and the citations the synthesis node produced,
\* whether validation passed or not.
C17_ValidationOnlySetsFlag ==
    /\ [][\A i \in Invs :
             /\ pc[i] = "validate" =>
                   /\ pc'[i] \in {"validate", "end"}
                   /\ state'[i].synthesized_answer
                         = state[i].synthesized_answer
                   /\ state'[i].citations = state[i].citations
                   /\ state'[i].original_query = state[i].original_query
                   /\ state'[i].decomposed_queries
                         = state[i].decomposed_queries
                   /\ state'[i].retrieved_contexts
                         = state[i].retrieved_contexts
                   /\ state'[i].error = state[i].error
             /\ pc[i] = "end" =>
                   /\ state'[i] = state[i]
                   /\ pc'[i] = "returned" =>
                         /\ outcome'[i].ok
                         /\ outcome'[i].value.answer
                               = state[i].synthesized_answer
                         /\ outcome'[i].value.citations
                               = state[i].citations]_vars
    /\ [](\A i \in Invs :
             (pc[i] = "returned" /\ ValidationRan(i)) =>
                /\ outcome[i].value.answer = state[i].synthesized_answer
                /\ outcome[i].value.citations = state[i].citations)

\* A long answer without citations failed validation and was returned as
\* the model gave it.
C17_Witness ==
    /\ pc[1] = "returned"
    /\ ValidationRan(1)
    /\ ~state[1].validation_passed
    /\ state[1].citations = <<>>
    /\ SynthesisHttp(1) = HttpContent(Rep("a", MinAnswerLen + 1))
    /\ outcome[1].value.answer = Rep("a", MinAnswerLen + 1)

\* The inputs of the runs checked for termination: every decomposition
\* answer, three kinds of retrieval answer, two kinds of synthesis answer.
Live ==
    [queries |-> {QueryItar, QuerySurrogate}, users |-> {UserPlain},
     decomp  |-> DecompHttpFull,
     retr    |-> {RetrSearchFails, RetrOk(RankedGood),
                  RetrOk(<<GoodHit(1), BareHit, GoodHit(2)>>)},
     synth   |-> {HttpTimeout, HttpContent(Rep("a", MinAnswerLen + 1))}]

NextLive == Step(1, Live) \/ GraphRaise(1)

\* One invocation, an exception possibly leaving the graph.  A step of the
\* program that can be taken is eventually taken: the thread of the
\* invocation keeps running, and every external call returns or fails (the
\* language-model call at the latest at its timeout).  Nothing forces an
\* exception to leave the graph.
SpecLive ==
    /\ Init
    /\ [][NextLive]_vars
    /\ WF_vars(Step(1, Live))

\* C18: every started invocation eventually returns a result, with or
\* without failures of the external calls and of the graph.  Checked under
\* SpecLive; the code violates it: the invocation always ends, but when a
\* print of lines 265-268 or 289 fails it ends by raising to its caller.
C18_EventuallyReturns ==
    \A i \in Invs : (pc[i] # "idle") ~> (pc[i] = "returned")

\* The synthesis call of invocation i came back with a text.
SynthesisCallSucceeded(i) == CloudRunLLM_invoke(SynthesisHttp(i)).ok

\* A sub-query of invocation i whose search returned a hit that was taken
\* into retrieved_contexts.
SomeSubQueryReturnedHit(i) ==
    \E ext \in RetrievalAnswers(i) :
       /\ ext.embed = None
       /\ ext.search = None
       /\ Len(ext.ranked) >= 1
       /\ ext.ranked[1].payload # None

\* C19: in every final state, validation_passed = true implies that the
\* synthesis language-model call succeeded and that retrieved_contexts is
\* non-empty, some sub-query having returned a hit; a failed synthesis call
\* ends with the sentinel answer (shorter than 51 characters), empty
\* citations and validation_passed = false.
C19_ValidationPassedMeans ==
    \A i \in Invs :
       ValidationRan(i) =>
          /\ state[i].validation_passed =>
                /\ SynthesisCallSucceeded(i)
                /\ state[i].retrieved_contexts # <<>>
                /\ SomeSubQueryReturnedHit(i)
          /\ ~SynthesisCallSucceeded(i) =>
                /\ state[i].synthesized_answer = SentinelAnswer
                /\ Len(SentinelAnswer) < MinAnswerLen + 1
                /\ state[i].citations = EmptyDict
                /\ ~state[i].validation_passed

\* An invocation has returned with validation_passed = true and error set:
\* the decomposition call failed, the fallback query found hits, and the
\* synthesis call succeeded.
C19_Witness ==
    /\ pc[1] = "returned"
    /\ state[1].validation_passed
    /\ state[1].error # None
    /\ resp[1][1] \in HttpFailures
    /\ SynthesisCallSucceeded(1)

====
